---- MODULE Spec2Model ----
(***************************************************************************)
(* A model of src/match.py: the pattern validator, the memoized recursive  *)
(* backtracking matcher match_helper with its nested char_matches, and the *)
(* two public operations match_single_char and count_matches.              *)
(*                                                                         *)
(* A Python str is a sequence of one-character strings; the empty str is   *)
(* the empty sequence.  Python indexes from 0: At(s, i) is s[i].           *)
(***************************************************************************)
EXTENDS Integers, Sequences, FiniteSets, TLC

VARIABLES text, pattern, case_sensitive, op, pc, exc, ret, matches, invoked,
          cache, ncalls, stack

vars == <<text, pattern, case_sensitive, op, pc, exc, ret, matches, invoked,
          cache, ncalls, stack>>

(***************************************************************************)
(* Bounds of the model.                                                    *)
(***************************************************************************)
MaxTextLen == 2
MaxPieces == 2
MaxItems == 2
MaxCalls == 2
RecursionLimit == 12

(***************************************************************************)
(* Python str primitives.                                                  *)
(***************************************************************************)
At(s, i) == s[i + 1]

\* s[i:]
From(s, i) == SubSeq(s, i + 1, Len(s))

\* sub in s
Contains(s, sub) ==
    \E k \in 0..(Len(s) - Len(sub)) : SubSeq(s, k + 1, k + Len(sub)) = sub

\* s.startswith(ch) for a one-character ch
StartsWith(s, ch) == Len(s) >= 1 /\ At(s, 0) = ch

\* s.count(ch) for a one-character ch
Count(s, ch) == Cardinality({k \in 0..(Len(s) - 1) : At(s, k) = ch})

\* s.index(ch): the first position of ch (ch occurs in s)
Index(s, ch) ==
    CHOOSE k \in 0..(Len(s) - 1) :
        At(s, k) = ch /\ \A j \in 0..(k - 1) : At(s, j) # ch

\* ord(ch): the code points of the characters the model uses
Ord(ch) ==
    CASE ch = "*" -> 42  [] ch = "+" -> 43  [] ch = "-" -> 45  [] ch = "." -> 46
      [] ch = "?" -> 63  [] ch = "A" -> 65  [] ch = "B" -> 66  [] ch = "C" -> 67
      [] ch = "D" -> 68  [] ch = "[" -> 91  [] ch = "]" -> 93  [] ch = "^" -> 94
      [] ch = "a" -> 97  [] ch = "b" -> 98  [] ch = "c" -> 99  [] ch = "d" -> 100

LowerChar(ch) ==
    CASE ch = "A" -> "a" [] ch = "B" -> "b" [] ch = "C" -> "c" [] ch = "D" -> "d"
      [] OTHER -> ch

\* s.lower()
lower(s) == [k \in 1..Len(s) |-> LowerChar(s[k])]

\* validate_pattern without its check of '?'.
validate_pattern_no_qmark(p) ==
    IF Contains(p, <<"*">>) /\ (StartsWith(p, "*") \/ Contains(p, <<"*", "*">>))
    THEN FALSE
    ELSE IF Contains(p, <<"+">>) /\ (StartsWith(p, "+") \/ Contains(p, <<"+", "+">>))
    THEN FALSE
    ELSE IF Count(p, "[") # Count(p, "]")
    THEN FALSE
    ELSE TRUE

(***************************************************************************)
(* validate_pattern: TRUE when it returns True, FALSE when it raises       *)
(* ValueError.                                                             *)
(***************************************************************************)
validate_pattern(p) ==
    IF Contains(p, <<"*">>) /\ (StartsWith(p, "*") \/ Contains(p, <<"*", "*">>))
    THEN FALSE
    ELSE IF Contains(p, <<"+">>) /\ (StartsWith(p, "+") \/ Contains(p, <<"+", "+">>))
    THEN FALSE
    ELSE IF Contains(p, <<"?">>) /\ (StartsWith(p, "?") \/ Contains(p, <<"?", "?">>))
    THEN FALSE
    ELSE IF Count(p, "[") # Count(p, "]")
    THEN FALSE
    ELSE TRUE

(***************************************************************************)
(* char_matches(c, p): c is text[0] or the empty str, p the whole pattern. *)
(* The set chars is kept as the set of its code points.                    *)
(***************************************************************************)
\* class_chars with the upper end of a range left out.
RECURSIVE class_chars_exclusive(_, _, _)
class_chars_exclusive(p, i, end) ==
    IF ~(i < end) THEN {}
    ELSE IF i + 2 < end /\ At(p, i + 1) = "-"
    THEN (Ord(At(p, i))..(Ord(At(p, i + 2)) - 1))
             \cup class_chars_exclusive(p, i + 3, end)
    ELSE {Ord(At(p, i))} \cup class_chars_exclusive(p, i + 1, end)

RECURSIVE class_chars(_, _, _)
class_chars(p, i, end) ==
    IF ~(i < end) THEN {}
    ELSE IF i + 2 < end /\ At(p, i + 1) = "-"
    THEN (Ord(At(p, i))..Ord(At(p, i + 2))) \cup class_chars(p, i + 3, end)
    ELSE {Ord(At(p, i))} \cup class_chars(p, i + 1, end)

\* c in chars, for c the empty str or one character
InChars(c, chars) == c # <<>> /\ Ord(c[1]) \in chars

char_matches(c, p) ==
    IF StartsWith(p, "[") /\ Contains(p, <<"]">>)
    THEN LET end == Index(p, "]")
             negate == At(p, 1) = "^"
             chars == class_chars(p, IF negate THEN 2 ELSE 1, end)
         IN  [match |-> IF negate THEN ~InChars(c, chars) ELSE InChars(c, chars),
              rest |-> From(p, end + 1)]
    ELSE [match |-> (c = p \/ p = <<".">>), rest |-> From(p, 1)]

\* normalize without the lowering.
normalize_skip(s, cs) == s

\* The case adjustment at the head of match_helper, applied to text and to
\* pattern.
normalize(s, cs) == IF cs THEN s ELSE lower(s)

(***************************************************************************)
(* The outcome of a call: exc is "none" when the call returned val, and    *)
(* the name of the exception when it raised.  cache is the memo table of   *)
(* lru_cache after the call.                                               *)
(***************************************************************************)
Ok(v, c) == [exc |-> "none", val |-> v, cache |-> c]

Raise(e, c) == [exc |-> e, val |-> FALSE, cache |-> c]

\* A key that leaves the case flag out.
CacheKeyNoFlag(t, p, cs) == <<t, p, TRUE>>

\* The key lru_cache builds from the three positional arguments.
CacheKey(t, p, cs) == <<t, p, cs>>

EmptyCache == <<>>

(***************************************************************************)
(* match_helper under @lru_cache(None).  c is the memo table on entry and  *)
(* d the number of active match_helper frames; the interpreter raises      *)
(* RecursionError when the recursion passes its limit.  A call that raises *)
(* stores nothing; the calls that returned before it stay stored.          *)
(***************************************************************************)
\* The one element of a singleton set.  Only({e(a) : a \in {x}}) is e(x) with
\* x evaluated once.
Only(S) == CHOOSE v \in S : TRUE

RECURSIVE match_helper(_, _, _, _, _)
RECURSIVE match_helper_body(_, _, _, _, _)

match_helper_body(c, t, p, cs, d) ==
    IF p = <<>> THEN Ok(t = <<>>, c)
    ELSE
      LET tx == normalize(t, cs)
          pt == normalize(p, cs)
          cm == char_matches(IF tx # <<>> THEN <<tx[1]>> ELSE <<>>, pt)
          first_match == cm.match
          remaining_pattern == cm.rest
          q == IF Len(remaining_pattern) >= 1 THEN At(remaining_pattern, 0) ELSE ""
      IN
        IF q = "*" THEN
          Only({ IF a.exc # "none" \/ a.val \/ ~first_match THEN a
                 ELSE match_helper(a.cache, From(tx, 1), pt, cs, d + 1) :
                 a \in {match_helper(c, tx, From(remaining_pattern, 1), cs, d + 1)} })
        ELSE IF q = "+" THEN
          IF ~first_match THEN Ok(FALSE, c)
          ELSE match_helper(c, From(tx, 1), pt, cs, d + 1)
        ELSE IF q = "?" THEN
          Only({ IF a.exc # "none" \/ a.val \/ ~first_match THEN a
                 ELSE match_helper(a.cache, From(tx, 1),
                                   From(remaining_pattern, 1), cs, d + 1) :
                 a \in {match_helper(c, tx, From(remaining_pattern, 1), cs, d + 1)} })
        ELSE
          IF ~first_match THEN Ok(FALSE, c)
          ELSE match_helper(c, From(tx, 1), remaining_pattern, cs, d + 1)

match_helper(c, t, p, cs, d) ==
    IF CacheKey(t, p, cs) \in DOMAIN c THEN Ok(c[CacheKey(t, p, cs)], c)
    ELSE IF d > RecursionLimit THEN Raise("RecursionError", c)
    ELSE Only({ IF r.exc # "none" THEN r
                ELSE Ok(r.val, (CacheKey(t, p, cs) :> r.val) @@ r.cache) :
                r \in {match_helper_body(c, t, p, cs, d)} })

(***************************************************************************)
(* The function lru_cache wraps (match_helper.__wrapped__ calling itself): *)
(* the same body evaluated with no memo table.                             *)
(***************************************************************************)
RECURSIVE wrapped(_, _, _, _)
wrapped(t, p, cs, d) ==
    IF d > RecursionLimit THEN Raise("RecursionError", EmptyCache)
    ELSE IF p = <<>> THEN Ok(t = <<>>, EmptyCache)
    ELSE
      LET tx == normalize(t, cs)
          pt == normalize(p, cs)
          cm == char_matches(IF tx # <<>> THEN <<tx[1]>> ELSE <<>>, pt)
          first_match == cm.match
          remaining_pattern == cm.rest
          q == IF Len(remaining_pattern) >= 1 THEN At(remaining_pattern, 0) ELSE ""
      IN
        IF q = "*" THEN
          Only({ IF a.exc # "none" \/ a.val \/ ~first_match THEN a
                 ELSE wrapped(From(tx, 1), pt, cs, d + 1) :
                 a \in {wrapped(tx, From(remaining_pattern, 1), cs, d + 1)} })
        ELSE IF q = "+" THEN
          IF ~first_match THEN Ok(FALSE, EmptyCache)
          ELSE wrapped(From(tx, 1), pt, cs, d + 1)
        ELSE IF q = "?" THEN
          Only({ IF a.exc # "none" \/ a.val \/ ~first_match THEN a
                 ELSE wrapped(From(tx, 1), From(remaining_pattern, 1), cs, d + 1) :
                 a \in {wrapped(tx, From(remaining_pattern, 1), cs, d + 1)} })
        ELSE
          IF ~first_match THEN Ok(FALSE, EmptyCache)
          ELSE wrapped(From(tx, 1), remaining_pattern, cs, d + 1)

(***************************************************************************)
(* match_single_char and count_matches.  invoked counts the calls of       *)
(* match_helper the operation itself makes.                                *)
(***************************************************************************)
\* match_single_char handing the whole text to match_helper.
match_single_char_whole(c, t, p, cs) ==
    IF ~validate_pattern(p)
    THEN [exc |-> "ValueError", val |-> FALSE, cache |-> c, invoked |-> 0]
    ELSE IF t = <<>>
    THEN [exc |-> "none", val |-> FALSE, cache |-> c, invoked |-> 0]
    ELSE Only({ [exc |-> r.exc, val |-> r.val, cache |-> r.cache, invoked |-> 1] :
                r \in {match_helper(c, t, p, cs, 1)} })

match_single_char(c, t, p, cs) ==
    IF ~validate_pattern(p)
    THEN [exc |-> "ValueError", val |-> FALSE, cache |-> c, invoked |-> 0]
    ELSE IF t = <<>>
    THEN [exc |-> "none", val |-> FALSE, cache |-> c, invoked |-> 0]
    ELSE Only({ [exc |-> r.exc, val |-> r.val, cache |-> r.cache, invoked |-> 1] :
                r \in {match_helper(c, <<At(t, 0)>>, p, cs, 1)} })

\* The for loop of count_matches from index i on, with m matches counted so
\* far.
RECURSIVE count_loop(_, _, _, _, _, _, _)
count_loop(c, t, p, cs, i, m, n) ==
    IF ~(i < Len(t))
    THEN [exc |-> "none", matches |-> m, cache |-> c, invoked |-> n]
    ELSE Only({ IF r.exc # "none"
                THEN [exc |-> r.exc, matches |-> m, cache |-> r.cache,
                      invoked |-> n + r.invoked]
                ELSE count_loop(r.cache, t, p, cs, i + 1,
                                IF r.val THEN m + 1 ELSE m, n + r.invoked) :
                r \in {match_single_char(c, From(t, i), p, cs)} })

count_matches(c, t, p, cs) ==
    IF ~validate_pattern(p)
    THEN [exc |-> "ValueError", matches |-> 0, cache |-> c, invoked |-> 0]
    ELSE count_loop(c, t, p, cs, 0, 0, 0)

(***************************************************************************)
(* The inputs of the model.  A pattern is a concatenation of at most       *)
(* MaxPieces pieces; a text has at most MaxTextLen characters.  Scenarios  *)
(* are the concrete calls the documentation of the matcher speaks of.      *)
(***************************************************************************)
TextChars == {"a", "A", "b"}

Texts == UNION {[1..n -> TextChars] : n \in 0..MaxTextLen}

Pieces ==
    { <<"a">>, <<"A">>, <<".">>, <<"*">>, <<"+">>, <<"?">>, <<"]">>,
      <<"[", "a", "]">>, <<"[", "^", "a", "]">>, <<"[", "A", "-", "C", "]">> }

RECURSIVE Flatten(_)
Flatten(ss) == IF ss = <<>> THEN <<>> ELSE Head(ss) \o Flatten(Tail(ss))

Patterns == {Flatten(ss) : ss \in UNION {[1..n -> Pieces] : n \in 0..MaxPieces}}

Scenarios ==
    { <<<<"a", "b", "b">>, <<"a", "*", "b", "b">>, TRUE>>,
      <<<<"a", "b", "b">>, <<"a", "*", "b", "b", "b">>, TRUE>>,
      <<<<"a", "a", "a">>, <<"a">>, TRUE>>,
      <<<<"a", "b", "a">>, <<"a", "b", "a">>, TRUE>>,
      <<<<"a", "b", "a", "b">>, <<"[", "a", "]", "[", "b", "]">>, TRUE>>,
      <<<<"C", "a", "t">>, <<"c", "a", "t">>, FALSE>>,
      <<<<"C", "a", "t">>, <<"c", "a", "t">>, TRUE>>,
      <<<<"A">>, <<"[", "^", "a", "]", "*", "b">>, TRUE>>,
      <<<<"a">>, <<"a", "*", "*">>, TRUE>>,
      <<<<"a">>, <<"[", "a", "b", "c">>, TRUE>> }

\* Bracket classes written from a list of items: a single character <<x>>
\* or a range <<lo, hi>>, written lo-hi.
ClassChars == {"a", "b", "c", "d", "-"}

Items == { <<"a">>, <<"d">>, <<"a", "c">>, <<"c", "a">>, <<"b", "d">> }

ItemLists == UNION {[1..n -> Items] : n \in 0..MaxItems}

RECURSIVE Body(_)
Body(items) ==
    IF items = <<>> THEN <<>>
    ELSE (IF Len(Head(items)) = 1 THEN Head(items)
          ELSE <<Head(items)[1], "-", Head(items)[2]>>) \o Body(Tail(items))

Class(negated, items) ==
    (IF negated THEN <<"[", "^">> ELSE <<"[">>) \o Body(items) \o <<"]">>

ClassTable ==
    { [pat |-> Class(ng, its), negated |-> ng, items |-> its] :
        ng \in BOOLEAN, its \in ItemLists }

ClassInputs == { <<<<ch>>, e.pat, TRUE>> : ch \in ClassChars, e \in ClassTable }

Inputs == (Texts \X Patterns \X BOOLEAN) \cup Scenarios \cup ClassInputs

(***************************************************************************)
(* The operations as actions.  Each is the whole call, run against the     *)
(* process-wide memo table.                                                *)
(***************************************************************************)
ValidatePatternCall(t, p, cs) ==
    /\ text' = t /\ pattern' = p /\ case_sensitive' = cs
    /\ op' = "validate_pattern"
    /\ pc' = IF validate_pattern(p) THEN "returned" ELSE "raised"
    /\ exc' = IF validate_pattern(p) THEN "none" ELSE "ValueError"
    /\ ret' = validate_pattern(p)
    /\ matches' = 0 /\ invoked' = 0
    /\ ncalls' = ncalls + 1
    /\ UNCHANGED <<cache, stack>>

MatchHelperCall(t, p, cs) ==
    \E r \in {match_helper(cache, t, p, cs, 1)} :
        /\ text' = t /\ pattern' = p /\ case_sensitive' = cs
        /\ op' = "match_helper"
        /\ pc' = IF r.exc = "none" THEN "returned" ELSE "raised"
        /\ exc' = r.exc
        /\ ret' = r.val
        /\ matches' = 0 /\ invoked' = 1
        /\ cache' = r.cache
        /\ ncalls' = ncalls + 1
        /\ UNCHANGED stack

MatchSingleCharCall(t, p, cs) ==
    \E r \in {match_single_char(cache, t, p, cs)} :
        /\ text' = t /\ pattern' = p /\ case_sensitive' = cs
        /\ op' = "match_single_char"
        /\ pc' = IF r.exc = "none" THEN "returned" ELSE "raised"
        /\ exc' = r.exc
        /\ ret' = r.val
        /\ matches' = 0 /\ invoked' = r.invoked
        /\ cache' = r.cache
        /\ ncalls' = ncalls + 1
        /\ UNCHANGED stack

CountMatchesCall(t, p, cs) ==
    \E r \in {count_matches(cache, t, p, cs)} :
        /\ text' = t /\ pattern' = p /\ case_sensitive' = cs
        /\ op' = "count_matches"
        /\ pc' = IF r.exc = "none" THEN "returned" ELSE "raised"
        /\ exc' = r.exc
        /\ ret' = FALSE
        /\ matches' = r.matches /\ invoked' = r.invoked
        /\ cache' = r.cache
        /\ ncalls' = ncalls + 1
        /\ UNCHANGED stack

(***************************************************************************)
(* Spec: one call, of any operation, on any input, in a fresh process.     *)
(***************************************************************************)
Init ==
    /\ \E inp \in Inputs :
          text = inp[1] /\ pattern = inp[2] /\ case_sensitive = inp[3]
    /\ op = "none" /\ pc = "ready" /\ exc = "none" /\ ret = FALSE
    /\ matches = 0 /\ invoked = 0
    /\ cache = EmptyCache /\ ncalls = 0 /\ stack = <<>>

ValidatePattern == ncalls = 0 /\ ValidatePatternCall(text, pattern, case_sensitive)

MatchHelper == ncalls = 0 /\ MatchHelperCall(text, pattern, case_sensitive)

MatchSingleChar == ncalls = 0 /\ MatchSingleCharCall(text, pattern, case_sensitive)

CountMatches == ncalls = 0 /\ CountMatchesCall(text, pattern, case_sensitive)

Next == ValidatePattern \/ MatchHelper \/ MatchSingleChar \/ CountMatches

Spec == Init /\ [][Next]_vars

(***************************************************************************)
(* SpecMemo: a sequence of at most MaxCalls calls in one process, the memo *)
(* table kept from call to call.                                           *)
(***************************************************************************)
MemoTexts == { <<>>, <<"a">>, <<"A">>, <<"A", "a">> }

MemoPatterns ==
    { <<"a">>, <<"A">>, <<"[", "A", "-", "C", "]", "*">>,
      <<"[", "^", "a", "]", "+">>, <<"[", "^", "a", "]", "?", "a">> }

MemoInputs == MemoTexts \X MemoPatterns \X BOOLEAN

InitMemo ==
    /\ text = <<>> /\ pattern = <<>> /\ case_sensitive = TRUE
    /\ op = "none" /\ pc = "ready" /\ exc = "none" /\ ret = FALSE
    /\ matches = 0 /\ invoked = 0
    /\ cache = EmptyCache /\ ncalls = 0 /\ stack = <<>>

MemoMatchHelper ==
    /\ ncalls < MaxCalls
    /\ \E inp \in MemoInputs : MatchHelperCall(inp[1], inp[2], inp[3])

MemoMatchSingleChar ==
    /\ ncalls < MaxCalls
    /\ \E inp \in MemoInputs : MatchSingleCharCall(inp[1], inp[2], inp[3])

MemoCountMatches ==
    /\ ncalls < MaxCalls
    /\ \E inp \in MemoInputs : CountMatchesCall(inp[1], inp[2], inp[3])

NextMemo == MemoMatchHelper \/ MemoMatchSingleChar \/ MemoCountMatches

SpecMemo == InitMemo /\ [][NextMemo]_vars

(***************************************************************************)
(* SpecRec: the chain of active match_helper frames of one call, without   *)
(* the memo table.  Calls(t, p, cs, d) are the recursive calls the frame   *)
(* (t, p) makes, in the order and under the short-circuit of the return    *)
(* statements.                                                             *)
(***************************************************************************)
Frame(t, p) == [text |-> t, pattern |-> p]

Calls(t, p, cs, d) ==
    IF p = <<>> THEN {}
    ELSE
      LET tx == normalize(t, cs)
          pt == normalize(p, cs)
          cm == char_matches(IF tx # <<>> THEN <<tx[1]>> ELSE <<>>, pt)
          first_match == cm.match
          remaining_pattern == cm.rest
          q == IF Len(remaining_pattern) >= 1 THEN At(remaining_pattern, 0) ELSE ""
      IN
        IF q = "*" THEN
          {Frame(tx, From(remaining_pattern, 1))} \cup
          UNION { IF a.exc # "none" \/ a.val \/ ~first_match THEN {}
                  ELSE {Frame(From(tx, 1), pt)} :
                  a \in {wrapped(tx, From(remaining_pattern, 1), cs, d + 1)} }
        ELSE IF q = "+" THEN
          IF ~first_match THEN {} ELSE {Frame(From(tx, 1), pt)}
        ELSE IF q = "?" THEN
          {Frame(tx, From(remaining_pattern, 1))} \cup
          UNION { IF a.exc # "none" \/ a.val \/ ~first_match THEN {}
                  ELSE {Frame(From(tx, 1), From(remaining_pattern, 1))} :
                  a \in {wrapped(tx, From(remaining_pattern, 1), cs, d + 1)} }
        ELSE
          IF ~first_match THEN {} ELSE {Frame(From(tx, 1), remaining_pattern)}

\* The top-level call of match_helper(text, pattern, case_sensitive).
Enter ==
    /\ stack = <<>> /\ pc = "ready"
    /\ stack' = <<Frame(text, pattern)>>
    /\ op' = "match_helper"
    /\ UNCHANGED <<text, pattern, case_sensitive, pc, exc, ret, matches,
                   invoked, cache, ncalls>>

\* The innermost frame makes one of its recursive calls.
Recurse ==
    /\ stack # <<>> /\ Len(stack) <= RecursionLimit
    /\ \E f \in Calls(stack[Len(stack)].text, stack[Len(stack)].pattern,
                      case_sensitive, Len(stack)) :
          stack' = Append(stack, f)
    /\ UNCHANGED <<text, pattern, case_sensitive, op, pc, exc, ret, matches,
                   invoked, cache, ncalls>>

\* The recursion passed the interpreter's limit: RecursionError unwinds
\* every frame.
Overflow ==
    /\ Len(stack) > RecursionLimit
    /\ stack' = <<>>
    /\ pc' = "raised" /\ exc' = "RecursionError"
    /\ UNCHANGED <<text, pattern, case_sensitive, op, ret, matches, invoked,
                   cache, ncalls>>

NextRec == Enter \/ Recurse \/ Overflow

SpecRec == Init /\ [][NextRec]_vars

(***************************************************************************)
(* Vocabulary of the properties.                                           *)
(***************************************************************************)
Quantifiers == {"*", "+", "?"}

\* The call returned True.
Holds(r) == r.exc = "none" /\ r.val

\* The length of the first token of a non-empty pattern: a bracket class up
\* to its closing bracket, or one character.
FirstTokenLen(p) ==
    IF p[1] = "[" /\ \E k \in 2..Len(p) : p[k] = "]"
    THEN CHOOSE k \in 2..Len(p) : p[k] = "]" /\ \A j \in 2..(k - 1) : p[j] # "]"
    ELSE 1

\* p starts with a token (not a quantifier character).
StartsWithToken(p) == p # <<>> /\ p[1] \notin Quantifiers

\* The token x, a literal, '.' or a bracket class, accepts the character ch.
TokenAccepts(x, ch) ==
    IF Len(x) = 1 THEN x[1] = "." \/ x[1] = ch
    ELSE char_matches(<<ch>>, x).match

\* p has none of the characters . * + ? [ ]
IsLiteralPattern(p) ==
    \A k \in 1..Len(p) : p[k] \notin {".", "*", "+", "?", "[", "]"}

(***************************************************************************)
(* C1.  A pattern of literal characters only matches exactly the text      *)
(* equal to it: for a non-empty text and a pattern starting with a literal *)
(* or '.', first_match is decided by the first pattern character alone,    *)
(* and match_helper(T, P) is true iff T = P, for literal patterns of every *)
(* length.                                                                 *)
(***************************************************************************)
C1_LiteralPatternMatchesIffEqual ==
    (op = "match_helper" /\ pc # "ready" /\ case_sensitive
        /\ validate_pattern(pattern)) =>
        /\ (text # <<>> /\ pattern # <<>>
              /\ pattern[1] \notin {"*", "+", "?", "[", "]"}) =>
              char_matches(<<text[1]>>, pattern).match
                  = (pattern[1] = "." \/ pattern[1] = text[1])
        /\ IsLiteralPattern(pattern) => (exc = "none" /\ ret = (text = pattern))

(***************************************************************************)
(* C2.  Star: match_helper(T, x*R) is true iff match_helper(T, R) is true, *)
(* or T is non-empty, the token x accepts T[0] and match_helper(T[1:],     *)
(* x*R) is true; "abb" matches "a*bb" and does not match "a*bbb".          *)
(***************************************************************************)
C2_StarSemantics ==
    (op = "match_helper" /\ pc = "returned" /\ case_sensitive) =>
        /\ (StartsWithToken(pattern)
              /\ Len(pattern) > FirstTokenLen(pattern)
              /\ pattern[FirstTokenLen(pattern) + 1] = "*") =>
              LET n == FirstTokenLen(pattern)
                  x == SubSeq(pattern, 1, n)
                  R == From(pattern, n + 1)
              IN  ret = ( \/ Holds(wrapped(text, R, TRUE, 1))
                          \/ /\ text # <<>>
                             /\ TokenAccepts(x, text[1])
                             /\ Holds(wrapped(From(text, 1), pattern, TRUE, 1)) )
        /\ (text = <<"a", "b", "b">> /\ pattern = <<"a", "*", "b", "b">>) => ret
        /\ (text = <<"a", "b", "b">> /\ pattern = <<"a", "*", "b", "b", "b">>) => ~ret

(***************************************************************************)
(* C3.  For a literal or bracket-class token x, matching T against x+      *)
(* returns the boolean that matching T against x x* returns.               *)
(***************************************************************************)
C3_PlusEquivalence ==
    (op = "match_helper" /\ pc = "returned" /\ case_sensitive
        /\ StartsWithToken(pattern) /\ pattern[1] \notin {".", "]"}
        /\ Len(pattern) = FirstTokenLen(pattern) + 1
        /\ pattern[Len(pattern)] = "+") =>
        LET x == SubSeq(pattern, 1, Len(pattern) - 1)
            w == wrapped(text, x \o x \o <<"*">>, TRUE, 1)
        IN  w.exc = "none" /\ ret = w.val

(***************************************************************************)
(* C5.  On the empty text, match_helper of a validated pattern is true iff *)
(* the pattern is empty or a sequence of tokens each followed by '*' or    *)
(* '?'; an unquantified '.' or bracket class never matches the empty text. *)
(***************************************************************************)
RECURSIVE AllZeroWidth(_)
AllZeroWidth(p) ==
    \/ p = <<>>
    \/ /\ StartsWithToken(p)
       /\ Len(p) > FirstTokenLen(p)
       /\ p[FirstTokenLen(p) + 1] \in {"*", "?"}
       /\ AllZeroWidth(From(p, FirstTokenLen(p) + 1))

C5_EmptyText ==
    (op = "match_helper" /\ pc # "ready" /\ text = <<>>
        /\ validate_pattern(pattern)) =>
        (exc = "none" /\ ret = AllZeroWidth(pattern))

(***************************************************************************)
(* C6.  Case-insensitivity: match_helper(T, P, case_sensitive=False) has   *)
(* the outcome of match_helper(lower(T), lower(P), case_sensitive=True),   *)
(* bracket classes and ranges written in upper case included.              *)
(***************************************************************************)
C6_CaseInsensitive ==
    (op = "match_helper" /\ pc # "ready" /\ ~case_sensitive) =>
        LET w == wrapped(lower(text), lower(pattern), TRUE, 1)
        IN  exc = w.exc /\ (pc = "returned" => ret = w.val)

C6_Witness ==
    /\ op = "match_helper" /\ pc = "returned" /\ ~case_sensitive
    /\ text = <<"b", "A">> /\ pattern = <<"[", "A", "-", "C", "]", "a">>
    /\ ret

(***************************************************************************)
(* C7.  Bracket classes: for one character c and a class written from a    *)
(* list of items, match_helper(c, class) is true iff c is in the set of    *)
(* the items (a single character, or the code points lo..hi of a range,    *)
(* none when hi < lo) for an inclusive class, and iff it is not for a      *)
(* negated class.                                                          *)
(***************************************************************************)
RECURSIVE ItemSet(_)
ItemSet(items) ==
    IF items = <<>> THEN {}
    ELSE (IF Len(Head(items)) = 1 THEN {Ord(Head(items)[1])}
          ELSE {n \in Ord(Head(items)[1])..Ord(Head(items)[2]) : TRUE})
         \cup ItemSet(Tail(items))

C7_ClassMembership ==
    (op = "match_helper" /\ pc # "ready" /\ case_sensitive /\ Len(text) = 1) =>
        /\ \A e \in ClassTable :
              e.pat = pattern =>
                  /\ exc = "none"
                  /\ ret = ((Ord(text[1]) \in ItemSet(e.items)) # e.negated)
        /\ (text = <<"d">> /\ pattern = <<"[", "a", "-", "c", "]">>) => ~ret
        /\ (text = <<"b">> /\ pattern = <<"[", "a", "-", "c", "]">>) => ret

C7_Witness ==
    /\ op = "match_helper" /\ pc = "returned" /\ case_sensitive
    /\ text = <<"d">> /\ pattern = <<"[", "^", "a", "-", "c", "]">>
    /\ ret

(***************************************************************************)
(* C4.  count_matches counts the start offsets i at which some prefix of   *)
(* text[i:], of one character or of more, whole-matches the pattern.       *)
(***************************************************************************)
PrefixMatchOffsets(t, p, cs) ==
    { i \in 0..(Len(t) - 1) :
        \E n \in 1..(Len(t) - i) : Holds(wrapped(SubSeq(t, i + 1, i + n), p, cs, 1)) }

SingleCharOffsets(t, p, cs) ==
    { i \in 0..(Len(t) - 1) : Holds(wrapped(<<At(t, i)>>, p, cs, 1)) }

SingleCharRaises(t, p, cs) ==
    \E i \in 0..(Len(t) - 1) : wrapped(<<At(t, i)>>, p, cs, 1).exc # "none"

Rejected(p) ==
    \/ p # <<>> /\ p[1] \in Quantifiers
    \/ \E k \in 1..(Len(p) - 1) : p[k] \in Quantifiers /\ p[k + 1] = p[k]
    \/ Cardinality({k \in 1..Len(p) : p[k] = "["})
         # Cardinality({k \in 1..Len(p) : p[k] = "]"})

C8_ValidateBeforeMatch ==
    /\ (op \in {"count_matches", "match_single_char"} /\ pc # "ready") =>
          IF Rejected(pattern)
          THEN pc = "raised" /\ exc = "ValueError" /\ invoked = 0
               /\ cache = EmptyCache
          ELSE exc # "ValueError" /\ (text # <<>> => invoked >= 1)
    /\ (op = "validate_pattern" /\ pc # "ready") =>
          /\ ret = ~Rejected(pattern)
          /\ (pc = "raised") = Rejected(pattern)

C8_Witness ==
    /\ op = "count_matches" /\ pc = "raised" /\ exc = "ValueError"
    /\ text = <<"a">> /\ pattern = <<"a", "*", "*">>
    /\ invoked = 0

(***************************************************************************)
(* C9.  The memo table is transparent: after any sequence of calls every   *)
(* entry stored under (text, pattern, case_sensitive) is the value the     *)
(* unmemoized function returns on that key, and a memoized call of         *)
(* match_helper has the outcome of the unmemoized call.                    *)
(***************************************************************************)
C9_MemoTransparent ==
    /\ \A k \in DOMAIN cache :
          LET w == wrapped(k[1], k[2], k[3], 1)
          IN  w.exc = "none" /\ cache[k] = w.val
    /\ (op = "match_helper" /\ pc # "ready") =>
          LET w == wrapped(text, pattern, case_sensitive, 1)
          IN  exc = w.exc /\ (pc = "returned" => ret = w.val)

C9_Witness ==
    /\ ncalls = 2 /\ op = "match_helper" /\ pc = "returned"
    /\ text = <<"A">> /\ pattern = <<"a">> /\ ~case_sensitive /\ ret
    /\ CacheKey(<<"A">>, <<"a">>, TRUE) \in DOMAIN cache
    /\ ~cache[CacheKey(<<"A">>, <<"a">>, TRUE)]

(***************************************************************************)
(* C10.  Termination: on a validated pattern every recursive call of       *)
(* match_helper has a strictly shorter text or a strictly shorter pattern  *)
(* than its caller, the depth of the recursion never exceeds |T| + |P|,    *)
(* and the call ends with a boolean.                                       *)
(***************************************************************************)
C10_RecursionDecreases ==
    validate_pattern(pattern) =>
        /\ \A k \in 2..Len(stack) :
              \/ Len(stack[k].text) < Len(stack[k - 1].text)
              \/ Len(stack[k].pattern) < Len(stack[k - 1].pattern)
        /\ Len(stack) - 1 <= Len(text) + Len(pattern)
        /\ exc # "RecursionError"

====
